---- MODULE Spec2Model ----
(***************************************************************************)
(* Object Recognizer web application (web-app/app.py): the definition      *)
(* extraction routines, the dictionary lookup, the entry enricher and the  *)
(* Flask handlers over the images collection.                              *)
(*                                                                         *)
(* Python text is a sequence of one-character strings; a text that leaves  *)
(* the program as a whole (a definition, a message) is a TLA+ string.      *)
(* A JSON value is a tagged record: JStr, JList, JDict, JNum, JNull.       *)
(* A call that may raise returns [exc |-> <exception or "none">, ...].     *)
(***************************************************************************)
EXTENDS Integers, Sequences, FiniteSets, TLC

VARIABLES
    blob,           \* parser run: the text handed to parse_definition_text
    parsed,         \* parser run: what parse_definition_text returned
    entry,          \* resolver run: the Dictionary Entry being resolved
    resolved,       \* resolver run: what extract_complete_definition did
    lookup,         \* lookup run: the last get_definition call and its result
    api_key,        \* MW_API_KEY is set (app.py:38)
    json_error,     \* the exception class response.json() raises on a bad body
    db,             \* the storage handle: "up", or "none" (setup_database)
    images,         \* db.images: the stored documents, _id = position
    clock,          \* time.time(), in whole seconds
    home,           \* the display request in progress (cursor, entries so far)
    response        \* the last operation and what it answered

vars == <<blob, parsed, entry, resolved, lookup, api_key, json_error, db,
          images, clock, home, response>>

-----------------------------------------------------------------------------
(* Bounds of the model *)

MaxBlobLen == 6
MaxItems == 2
MaxGroups == 2
MaxSenses == 2
MaxImages == 2

-----------------------------------------------------------------------------
(* Text *)

Whitespace == {" ", "\t", "\n"}

Digits == {"0", "1", "2", "3", "4", "5", "6", "7", "8", "9"}

RECURSIVE Str(_)
\* the text as one string
Str(t) == IF t = <<>> THEN "" ELSE Head(t) \o Str(Tail(t))

RECURSIVE LStrip(_)
LStrip(t) ==
    IF t # <<>> /\ Head(t) \in Whitespace THEN LStrip(Tail(t)) ELSE t

RECURSIVE RStrip(_)
RStrip(t) ==
    IF t # <<>> /\ t[Len(t)] \in Whitespace
    THEN RStrip(SubSeq(t, 1, Len(t) - 1))
    ELSE t

\* str.strip()
Strip(t) == RStrip(LStrip(t))

RECURSIVE JoinWith(_, _)
\* sep.join(parts)
JoinWith(sep, parts) ==
    IF parts = <<>> THEN <<>>
    ELSE IF Len(parts) = 1 THEN parts[1]
    ELSE parts[1] \o sep \o JoinWith(sep, Tail(parts))

\* the position of the first c in t, 0 when there is none
IndexOf(t, c) ==
    IF \E i \in 1..Len(t) : t[i] = c
    THEN CHOOSE i \in 1..Len(t) : t[i] = c /\ \A j \in 1..(i - 1) : t[j] # c
    ELSE 0

-----------------------------------------------------------------------------
(* parse_definition_text *)

None == [some |-> FALSE, text |-> <<>>]

Some(t) == [some |-> TRUE, text |-> t]

RECURSIVE RemoveAnnotations(_)
\* re.sub(r"\{[^}]+\}", "", text): scanning from the left, a "{" followed by
\* at least one character other than "}" and then a "}" is deleted with its
\* content; any other character is kept.
RemoveAnnotations(t) ==
    IF t = <<>> THEN <<>>
    ELSE IF Head(t) = "{" /\ IndexOf(t, "}") > 2
         THEN RemoveAnnotations(SubSeq(t, IndexOf(t, "}") + 1, Len(t)))
         ELSE <<Head(t)>> \o RemoveAnnotations(Tail(t))

RECURSIVE SplitSentences(_, _)
\* re.split(r"\.\s*", text): each period, with the whitespace that follows
\* it, ends a piece; cur is the piece being read.
SplitSentences(t, cur) ==
    IF t = <<>> THEN <<cur>>
    ELSE IF Head(t) = "."
         THEN <<cur>> \o SplitSentences(LStrip(Tail(t)), <<>>)
         ELSE SplitSentences(Tail(t), Append(cur, Head(t)))

StripEach(pieces) == [i \in 1..Len(pieces) |-> Strip(pieces[i])]

\* [s.strip() for s in pieces if s.strip()]
Sentences(pieces) == StripEach(SelectSeq(pieces, LAMBDA s : Strip(s) # <<>>))

\* lines 75-79 with the first sentence taken whenever there is one
PickSentenceFirst(sentences) ==
    IF sentences # <<>> THEN Some(sentences[1] \o <<".">>) ELSE None

\* lines 75-79
PickSentence(sentences) ==
    IF Len(sentences) >= 2 THEN Some(sentences[2] \o <<".">>)
    ELSE IF sentences # <<>> THEN Some(sentences[1] \o <<".">>)
    ELSE None

parse_definition_text(text) ==
    PickSentence(Sentences(SplitSentences(Strip(RemoveAnnotations(text)), <<>>)))

-----------------------------------------------------------------------------
(* JSON values, as Python holds them *)

JStr(t) == [k |-> "str", s |-> t]

JNum(n) == [k |-> "num", n |-> n]

JNull == [k |-> "null"]

JList(xs) == [k |-> "list", items |-> xs]

\* f: a function from the keys to the values
JDict(f) == [k |-> "dict", f |-> f]

EmptyDict == JDict([key \in {} |-> JNull])

\* not v
Falsy(v) ==
    \/ v.k = "null"
    \/ v.k = "num" /\ v.n = 0
    \/ v.k = "str" /\ v.s = <<>>
    \/ v.k = "list" /\ v.items = <<>>
    \/ v.k = "dict" /\ DOMAIN v.f = {}

\* for x in v: a list gives its elements, a string its characters; a number
\* or null is not iterable. (A dict gives its keys, which are strings; each
\* stands here as a one-character string, a key's own text is never read.)
Iter(v) ==
    CASE v.k = "list" -> [exc |-> "none", items |-> v.items]
      [] v.k = "str" -> [exc |-> "none", items |-> [i \in 1..Len(v.s) |-> JStr(<<v.s[i]>>)]]
      [] v.k = "dict" -> [exc |-> "none",
                          items |-> [i \in 1..Cardinality(DOMAIN v.f) |-> JStr(<<"k">>)]]
      [] OTHER -> [exc |-> "TypeError", items |-> <<>>]

\* v[key] in place of v.get(key, default): a KeyError where the key is missing
GetStrict(v, key, default) ==
    IF v.k # "dict" THEN [exc |-> "TypeError", val |-> JNull]
    ELSE IF key \in DOMAIN v.f THEN [exc |-> "none", val |-> v.f[key]]
    ELSE [exc |-> "KeyError", val |-> JNull]

\* v.get(key, default)
Get(v, key, default) ==
    IF v.k # "dict" THEN [exc |-> "AttributeError", val |-> JNull]
    ELSE IF key \in DOMAIN v.f THEN [exc |-> "none", val |-> v.f[key]]
    ELSE [exc |-> "none", val |-> default]

-----------------------------------------------------------------------------
(* extract_text_from_content *)

RECURSIVE extract_text_from_content(_)
RECURSIVE ExtendAll(_)
\* parts.extend(extract_text_from_content(item)) for item in content
ExtendAll(items) ==
    IF items = <<>> THEN <<>>
    ELSE extract_text_from_content(Head(items)) \o ExtendAll(Tail(items))

extract_text_from_content(content) ==
    IF content.k = "str" THEN <<content>>
    ELSE IF content.k = "list" THEN ExtendAll(content.items)
    ELSE IF content.k = "dict" /\ "t" \in DOMAIN content.f THEN <<content.f["t"]>>
    ELSE <<>>

-----------------------------------------------------------------------------
(* extract_complete_definition *)

NoDefinition == "No definition available."

\* what the body of a loop did: went on, returned val, or raised exc
Continue == [ctl |-> "continue", val |-> "", exc |-> "none"]

Return(v) == [ctl |-> "return", val |-> v, exc |-> "none"]

Raise(e) == [ctl |-> "raise", val |-> "", exc |-> e]

RECURSIVE DtParts(_)
\* lines 111-114: the fragments of the dt items that are lists of two or more
DtParts(dt_items) ==
    IF dt_items = <<>> THEN <<>>
    ELSE LET item == Head(dt_items)
         IN (IF item.k = "list" /\ Len(item.items) >= 2
             THEN extract_text_from_content(item.items[2])
             ELSE <<>>) \o DtParts(Tail(dt_items))

\* the body of a loop, then the rest of the loop unless the body returned
\* or raised
OrElse(r, rest) == IF r.ctl # "continue" THEN r ELSE rest

\* lines 119-120: if parsed_definition: return parsed_definition
ReturnIfSome(parsed_definition) ==
    IF parsed_definition.some THEN Return(Str(parsed_definition.text)) ELSE Continue

TextsOf(parts) == [i \in 1..Len(parts) |-> parts[i].s]

\* lines 116-120: " ".join raises TypeError on a fragment that is not text
JoinAndParse(all_text_parts) ==
    IF all_text_parts = <<>> THEN Continue
    ELSE IF \E i \in 1..Len(all_text_parts) : all_text_parts[i].k # "str"
    THEN Raise("TypeError")
    ELSE ReturnIfSome(parse_definition_text(JoinWith(<<" ">>, TextsOf(all_text_parts))))

\* lines 109-120: for item in dt_items, then the join and the parse
DtStep(it) ==
    IF it.exc # "none" THEN Raise(it.exc) ELSE JoinAndParse(DtParts(it.items))

\* line 108: sense_entry[1].get("dt", [])
DtOf(dt_items) ==
    IF dt_items.exc # "none" THEN Raise(dt_items.exc) ELSE DtStep(Iter(dt_items.val))

\* lines 105-120, one sense_entry of a group
SenseEntryStep(sense_entry) ==
    IF ~(sense_entry.k = "list" /\ Len(sense_entry.items) >= 2) THEN Continue
    ELSE DtOf(Get(sense_entry.items[2], "dt", JList(<<>>)))

\* a scan that keeps the last sense_entry that returned instead of the first
RECURSIVE ScanGroupLast(_)
ScanGroupLast(sense_entries) ==
    IF sense_entries = <<>> THEN Continue
    ELSE OrElse(ScanGroupLast(Tail(sense_entries)), SenseEntryStep(Head(sense_entries)))

RECURSIVE ScanGroup(_)
\* line 104: for sense_entry in group, until one returns or raises
ScanGroup(sense_entries) ==
    IF sense_entries = <<>> THEN Continue
    ELSE OrElse(SenseEntryStep(Head(sense_entries)), ScanGroup(Tail(sense_entries)))

\* line 104, the group iterated
GroupStep(it) == IF it.exc # "none" THEN Raise(it.exc) ELSE ScanGroup(it.items)

RECURSIVE ScanSseq(_)
\* line 103: for group in sseq
ScanSseq(groups) ==
    IF groups = <<>> THEN Continue
    ELSE OrElse(GroupStep(Iter(Head(groups))), ScanSseq(Tail(groups)))

\* line 103, the sseq iterated
SseqStep(it) == IF it.exc # "none" THEN Raise(it.exc) ELSE ScanSseq(it.items)

\* line 103: sense.get("sseq", [])
SseqOf(sseq) ==
    IF sseq.exc # "none" THEN Raise(sseq.exc) ELSE SseqStep(Iter(sseq.val))

RECURSIVE ScanDef(_)
\* line 102: for sense in entry["def"]
ScanDef(senses) ==
    IF senses = <<>> THEN Continue
    ELSE OrElse(SseqOf(Get(Head(senses), "sseq", JList(<<>>))), ScanDef(Tail(senses)))

\* line 102, entry["def"] iterated
DefStep(it) == IF it.exc # "none" THEN Raise(it.exc) ELSE ScanDef(it.items)

\* line 122: the sentinel when no sense returned
OrSentinel(r) == IF r.ctl = "continue" THEN Return(NoDefinition) ELSE r

\* entry: a dict (get_definition passes nothing else)
extract_complete_definition(e) ==
    IF Falsy(e) \/ "def" \notin DOMAIN e.f THEN Return(NoDefinition)
    ELSE OrSentinel(DefStep(Iter(e.f["def"])))

-----------------------------------------------------------------------------
(* The runs of the pure routines: an input is built, then the routine runs *)

NotRun == [done |-> FALSE]

Idle == [op |-> "none"]

ParserIdle == blob = <<>> /\ parsed = NotRun

ResolverIdle == entry = EmptyDict /\ resolved = NotRun

LookupIdle == lookup = NotRun

ConfigDefault == api_key = TRUE /\ json_error = "requests.JSONDecodeError" /\ db = "up"

AppIdle == images = <<>> /\ clock = 0 /\ home = Idle /\ response = Idle

(* Parser run *)

BlobChars == {"a", "b", ".", " ", "{", "}"}

InitParser == ParserIdle /\ ResolverIdle /\ LookupIdle /\ ConfigDefault /\ AppIdle

TypeChar ==
    /\ ~parsed.done
    /\ Len(blob) < MaxBlobLen
    /\ \E c \in BlobChars : blob' = Append(blob, c)
    /\ UNCHANGED <<parsed, entry, resolved, lookup, api_key, json_error, db,
                   images, clock, home, response>>

ParseBlob ==
    /\ ~parsed.done
    /\ parsed' = [done |-> TRUE, value |-> parse_definition_text(blob)]
    /\ UNCHANGED <<blob, entry, resolved, lookup, api_key, json_error, db,
                   images, clock, home, response>>

NextParser == TypeChar \/ ParseBlob

SpecParser == InitParser /\ [][NextParser]_vars

(* Resolver run: the entries are built sense by sense, group by group *)

DtItem(content) == JList(<<JStr(<<"t", "e", "x", "t">>), content>>)

SenseItem(dt) == JList(<<JStr(<<"s", "e", "n", "s", "e">>), JDict([dt |-> JList(dt)])>>)

\* ["sense", {"dt": [["text", "{bc}a"]]}]: resolves to "a."
ItemA == SenseItem(<<DtItem(JStr(<<"{", "b", "c", "}", "a">>))>>)

\* ["sense", {"dt": [["text", "a. b"], ["text", [[{"t": "{x}a"}, 1]]]]}]:
\* text, nested sequences, a text carrier and a number; resolves to "b a."
ItemTwoSentences ==
    SenseItem(<<DtItem(JStr(<<"a", ".", " ", "b">>)),
                DtItem(JList(<<JList(<<JDict([t |-> JStr(<<"{", "x", "}", "a">>)]),
                                       JNum(1)>>)>>))>>)

\* ["sense", {"dt": [["text", "{bc}"]]}]: a fragment that is markup only
ItemMarkupOnly == SenseItem(<<DtItem(JStr(<<"{", "b", "c", "}">>))>>)

\* ["sense", {"dt": [["text"], "x", ["text", 5], ["text", {"k": 1}]]}]: no fragment
ItemNoText ==
    SenseItem(<<JList(<<JStr(<<"t">>)>>), JStr(<<"x">>), DtItem(JNum(5)),
                DtItem(JDict([k |-> JNum(1)]))>>)

\* ["sense", {"sn": "1"}]: no dt
ItemNoDt == JList(<<JStr(<<"s">>), JDict([sn |-> JStr(<<"1">>)])>>)

\* ["sense"]
ItemShort == JList(<<JStr(<<"s">>)>>)

\* ["pseq", []]: the second element is no record
ItemSecondNotRecord == JList(<<JStr(<<"p", "s", "e", "q">>), JList(<<>>)>>)

\* ["sense", {"dt": [["text", {"t": 5}]]}]: a text carrier that holds no text
ItemCarrierNotText == SenseItem(<<DtItem(JDict([t |-> JNum(5)]))>>)

ItemSamples ==
    {ItemA, ItemTwoSentences, ItemMarkupOnly, ItemNoText, ItemNoDt,
     ItemShort, JStr(<<"x">>), ItemSecondNotRecord, ItemCarrierNotText}

HasDef(e) == "def" \in DOMAIN e.f

SensesOf(e) == e.f["def"].items

HasSseq(sense) == "sseq" \in DOMAIN sense.f

GroupsOf(sense) == IF HasSseq(sense) THEN sense.f["sseq"].items ELSE <<>>

RECURSIVE AllGroups(_)
\* the groups of all senses, in source order
AllGroups(senses) ==
    IF senses = <<>> THEN <<>>
    ELSE GroupsOf(Head(senses)) \o AllGroups(Tail(senses))

RECURSIVE AllItems(_)
\* the sense-group items of all groups, in source order
AllItems(groups) ==
    IF groups = <<>> THEN <<>>
    ELSE Head(groups).items \o AllItems(Tail(groups))

ItemsOf(e) == IF HasDef(e) THEN AllItems(AllGroups(SensesOf(e))) ELSE <<>>

WithDef(e, senses) == JDict([e.f EXCEPT !["def"] = JList(senses)])

WithSseq(sense, groups) == JDict([sense.f EXCEPT !["sseq"] = JList(groups)])

ReplaceLast(seq, x) == [seq EXCEPT ![Len(seq)] = x]

InitResolver ==
    /\ entry \in {EmptyDict,
                  JDict([hwi |-> JStr(<<"a">>)]),
                  JDict([def |-> JList(<<>>)])}
    /\ resolved = NotRun
    /\ ParserIdle /\ LookupIdle /\ ConfigDefault /\ AppIdle

AddSense ==
    /\ ~resolved.done
    /\ HasDef(entry)
    /\ Len(SensesOf(entry)) < MaxSenses
    /\ \E sense \in {JDict([sseq |-> JList(<<>>)]), JDict([sls |-> JList(<<>>)])} :
           entry' = WithDef(entry, Append(SensesOf(entry), sense))
    /\ UNCHANGED <<blob, parsed, resolved, lookup, api_key, json_error, db,
                   images, clock, home, response>>

AddGroup ==
    /\ ~resolved.done
    /\ HasDef(entry)
    /\ SensesOf(entry) # <<>>
    /\ LET senses == SensesOf(entry)
           last == senses[Len(senses)]
       IN /\ HasSseq(last)
          /\ Len(AllGroups(senses)) < MaxGroups
          /\ entry' = WithDef(entry, ReplaceLast(senses,
                          WithSseq(last, Append(GroupsOf(last), JList(<<>>)))))
    /\ UNCHANGED <<blob, parsed, resolved, lookup, api_key, json_error, db,
                   images, clock, home, response>>

AddItem ==
    /\ ~resolved.done
    /\ HasDef(entry)
    /\ SensesOf(entry) # <<>>
    /\ LET senses == SensesOf(entry)
           last == senses[Len(senses)]
           groups == GroupsOf(last)
       IN /\ groups # <<>>
          /\ Len(ItemsOf(entry)) < MaxItems
          /\ \E item \in ItemSamples :
                 entry' = WithDef(entry, ReplaceLast(senses,
                              WithSseq(last, ReplaceLast(groups,
                                  JList(Append(groups[Len(groups)].items, item))))))
    /\ UNCHANGED <<blob, parsed, resolved, lookup, api_key, json_error, db,
                   images, clock, home, response>>

Resolve ==
    /\ ~resolved.done
    /\ resolved' = [done |-> TRUE, r |-> extract_complete_definition(entry)]
    /\ UNCHANGED <<blob, parsed, entry, lookup, api_key, json_error, db,
                   images, clock, home, response>>

NextResolver == AddSense \/ AddGroup \/ AddItem \/ Resolve

SpecResolver == InitResolver /\ [][NextResolver]_vars

-----------------------------------------------------------------------------
(* Properties of the parser *)

RECURSIVE SortedSeq(_)
\* a finite set of numbers, ascending
SortedSeq(S) ==
    IF S = {} THEN <<>>
    ELSE LET m == CHOOSE x \in S : \A y \in S : x <= y
         IN <<m>> \o SortedSeq(S \ {m})

\* the candidates of s when it is cut at the positions cuts (each a period):
\* the stretches between the cuts, trimmed, the empty ones dropped
CandidatesBy(s, cuts) ==
    LET starts == SortedSeq({1} \cup {i + 1 : i \in cuts})
        EndOf(p) == IF \E c \in cuts : c >= p
                    THEN (CHOOSE c \in cuts : c >= p /\ \A d \in cuts : d >= p => c <= d) - 1
                    ELSE Len(s)
        pieces == [n \in 1..Len(starts) |-> Strip(SubSeq(s, starts[n], EndOf(starts[n])))]
    IN SelectSeq(pieces, LAMBDA x : x # <<>>)

EveryPeriod(s) == {i \in 1..Len(s) : s[i] = "."}

PeriodBeforeWhitespace(s) ==
    {i \in 1..Len(s) : s[i] = "." /\ i < Len(s) /\ s[i + 1] \in Whitespace}

\* second candidate if there are two, else the first, with a period appended
SecondElseFirst(c) ==
    IF Len(c) >= 2 THEN Some(c[2] \o <<".">>)
    ELSE IF Len(c) >= 1 THEN Some(c[1] \o <<".">>)
    ELSE None

\* no "{", one or more characters other than "}", "}" is left in s
NoAnnotationLeft(s) ==
    ~\E i, j \in 1..Len(s) :
        /\ s[i] = "{" /\ s[j] = "}" /\ j >= i + 2
        /\ \A m \in (i + 1)..(j - 1) : s[m] # "}"

\* C9 as stated: the text is split only at a period followed by whitespace;
\* with at least one candidate the second, else the first, is returned with a
\* period appended.
C9_SplitsOnlyBeforeWhitespace ==
    parsed.done =>
        LET c == CandidatesBy(Strip(RemoveAnnotations(blob)),
                              PeriodBeforeWhitespace(Strip(RemoveAnnotations(blob))))
        IN Len(c) >= 1 => parsed.value = SecondElseFirst(c)

\* C9 amended: every {...} span holding at least one character is deleted
\* ("{}" stays), the text is trimmed and split at every period, whatever
\* follows it; the candidates are trimmed and the empty ones dropped; the
\* second candidate if there are two, else the only one, is returned with a
\* period appended, and nothing is returned when there is none.
C9_SplitsAtEveryPeriod ==
    parsed.done =>
        LET s == Strip(RemoveAnnotations(blob))
        IN /\ NoAnnotationLeft(s)
           /\ parsed.value = SecondElseFirst(CandidatesBy(s, EveryPeriod(s)))

\* a blob with an annotation and a period that no whitespace follows, parsed
\* to its second candidate
C9_Witness ==
    /\ parsed.done
    /\ blob = <<"{", "a", "}", "a", ".", "b">>
    /\ parsed.value = Some(<<"b", ".">>)

-----------------------------------------------------------------------------
(* Properties of the resolver *)

RECURSIVE WellFormedContent(_)
\* a content node: text, a sequence of content nodes, a record whose text
\* field (if it has one) holds text, or any other value
WellFormedContent(c) ==
    CASE c.k = "list" -> \A i \in 1..Len(c.items) : WellFormedContent(c.items[i])
      [] c.k = "dict" -> "t" \in DOMAIN c.f => c.f["t"].k = "str"
      [] OTHER -> TRUE

\* a sense-group item of two or more elements holds a record second, whose
\* dt, if any, is a sequence of defining-text items
WellFormedItem(item) ==
    (item.k = "list" /\ Len(item.items) >= 2) =>
        /\ item.items[2].k = "dict"
        /\ "dt" \in DOMAIN item.items[2].f =>
              /\ item.items[2].f["dt"].k = "list"
              /\ \A i \in 1..Len(item.items[2].f["dt"].items) :
                    LET d == item.items[2].f["dt"].items[i]
                    IN (d.k = "list" /\ Len(d.items) >= 2) => WellFormedContent(d.items[2])

WellFormedEntry(e) == \A i \in 1..Len(ItemsOf(e)) : WellFormedItem(ItemsOf(e)[i])

\* the fragments of a well-formed sense-group item
FragmentsOf(item) ==
    IF item.k = "list" /\ Len(item.items) >= 2 /\ "dt" \in DOMAIN item.items[2].f
    THEN DtParts(item.items[2].f["dt"].items)
    ELSE <<>>

\* the Parser on the fragments joined with single spaces
ParsedFragments(item) ==
    parse_definition_text(
        JoinWith(<<" ">>, [i \in 1..Len(FragmentsOf(item)) |-> FragmentsOf(item)[i].s]))

\* the least member of a non-empty set of positions
First(S) == CHOOSE i \in S : \A j \in S : i <= j

\* C3 as stated: at the first sense-group item with a non-empty fragment set
\* the resolver returns the Parser's result, never looking at a later item.
C3_FirstFragmentsWin ==
    (resolved.done /\ WellFormedEntry(entry)) =>
        LET items == ItemsOf(entry)
            with == {i \in 1..Len(items) : FragmentsOf(items[i]) # <<>>}
        IN with # {} =>
              resolved.r = Return(IF ParsedFragments(items[First(with)]).some
                                  THEN Str(ParsedFragments(items[First(with)]).text)
                                  ELSE NoDefinition)

\* C3 amended: on a well-formed entry the resolver returns the Parser's
\* result at the first sense-group item, in source order, whose fragment set
\* is non-empty and parses to a sentence; an item whose fragments parse to
\* nothing is passed over like one without fragments, later items are never
\* examined, and with no such item the sentinel is returned.
C3_FirstParsedWins ==
    (resolved.done /\ WellFormedEntry(entry)) =>
        LET items == ItemsOf(entry)
            good == {i \in 1..Len(items) :
                        FragmentsOf(items[i]) # <<>> /\ ParsedFragments(items[i]).some}
        IN resolved.r = Return(IF good = {} THEN NoDefinition
                               ELSE Str(ParsedFragments(items[First(good)]).text))

\* the first group carries no text, the second does, and a later item that
\* would match too is ignored
C3_Witness ==
    /\ resolved.done
    /\ HasDef(entry)
    /\ Len(AllGroups(SensesOf(entry))) = 2
    /\ AllGroups(SensesOf(entry))[1].items = <<>>
    /\ AllGroups(SensesOf(entry))[2].items = <<ItemTwoSentences, ItemA>>
    /\ resolved.r = Return("b a.")

-----------------------------------------------------------------------------
(* get_definition *)

\* the exceptions that are requests.RequestException or a subclass of it
RequestExceptions == {"Timeout", "ConnectionError", "requests.JSONDecodeError"}

\* what response.json() raises on a body that is not JSON: a subclass of
\* RequestException in requests 2.27 and later, a plain ValueError before
JsonErrors == {"requests.JSONDecodeError", "ValueError"}

Returned(v) == [exc |-> "none", val |-> v]

Raised(e) == [exc |-> e, val |-> ""]

\* line 151: the resolver's return, or what it raised
ResolverOutcome(r) == IF r.ctl = "raise" THEN Raised(r.exc) ELSE Returned(r.val)

\* lines 136-151, the body of the try. http: what requests.get did, either
\* [net |-> <exception>] or [net |-> "ok", status, json, data].
DefinitionTryBody(http, jerr) ==
    IF http.net # "ok" THEN Raised(http.net)
    ELSE IF http.status # 200 THEN Returned("API error: " \o ToString(http.status))
    ELSE IF ~http.json THEN Raised(jerr)
    ELSE IF Falsy(http.data) \/ http.data.k # "list" THEN Returned("No results found.")
    ELSE IF http.data.items[1].k # "dict" THEN Returned("Invalid API response format.")
    ELSE ResolverOutcome(extract_complete_definition(http.data.items[1]))

\* except clauses that let everything but RequestException through
DefinitionExceptNarrow(r) ==
    IF r.exc \in RequestExceptions
    THEN [exc |-> "none", val |-> "Network error while fetching definition.", called |-> TRUE]
    ELSE [exc |-> r.exc, val |-> r.val, called |-> TRUE]

\* lines 152-157: except requests.RequestException, then except Exception
DefinitionExcept(r) ==
    IF r.exc = "none" THEN [exc |-> "none", val |-> r.val, called |-> TRUE]
    ELSE IF r.exc \in RequestExceptions
    THEN [exc |-> "none", val |-> "Network error while fetching definition.", called |-> TRUE]
    ELSE [exc |-> "none", val |-> "Error processing definition.", called |-> TRUE]

\* key: MW_API_KEY is set; called: requests.get was issued
get_definition(word, http, key, jerr) ==
    IF ~key THEN [exc |-> "none", val |-> "API key not configured.", called |-> FALSE]
    ELSE DefinitionExcept(DefinitionTryBody(http, jerr))

(* Lookup run: get_definition against sampled answers of the dictionary API *)

EntryOf(items) == JDict([def |-> JList(<<JDict([sseq |-> JList(<<JList(items)>>)])>>)])

EntrySamples ==
    {EmptyDict,
     JDict([hwi |-> JStr(<<"a">>)]),
     EntryOf(<<ItemA>>),
     EntryOf(<<ItemMarkupOnly, ItemTwoSentences, ItemA>>),
     EntryOf(<<ItemNoText>>),
     EntryOf(<<ItemSecondNotRecord, ItemA>>),
     EntryOf(<<ItemCarrierNotText>>)}

HttpOk(status, data) == [net |-> "ok", status |-> status, json |-> TRUE, data |-> data]

HttpSamples ==
    {[net |-> "Timeout"], [net |-> "ConnectionError"]}
    \cup {HttpOk(s, JList(<<>>)) : s \in {404, 500, 204}}
    \cup {[net |-> "ok", status |-> 200, json |-> FALSE, data |-> JNull]}
    \cup {HttpOk(200, d) : d \in {JNull, JNum(0), JNum(3), JStr(<<"a">>), JList(<<>>),
                                  EmptyDict, EntryOf(<<ItemA>>),
                                  JList(<<JStr(<<"a">>)>>), JList(<<JNum(3)>>)}}
    \cup {HttpOk(200, JList(<<e>>)) : e \in EntrySamples}

Words == {"a", "b"}

InitLookup ==
    /\ api_key \in BOOLEAN
    /\ json_error \in JsonErrors
    /\ db = "up"
    /\ lookup = NotRun
    /\ ParserIdle /\ ResolverIdle /\ AppIdle

Lookup ==
    /\ \E word \in Words, http \in HttpSamples :
           lookup' = [done |-> TRUE, word |-> word, http |-> http,
                      r |-> get_definition(word, http, api_key, json_error)]
    /\ UNCHANGED <<blob, parsed, entry, resolved, api_key, json_error, db,
                   images, clock, home, response>>

NextLookup == Lookup

SpecLookup == InitLookup /\ [][NextLookup]_vars

-----------------------------------------------------------------------------
(* Properties of the lookup *)

\* the outcome of a lookup, in the terms of the error policy
OutcomeOf(http, key) ==
    IF ~key THEN "no key"
    ELSE IF http.net # "ok" THEN "network"
    ELSE IF http.status # 200 THEN "status"
    ELSE IF ~http.json THEN "not json"
    ELSE IF http.data.k # "list" \/ http.data.items = <<>> THEN "no results"
    ELSE IF http.data.items[1].k # "dict" THEN "format"
    ELSE IF ~WellFormedEntry(http.data.items[1]) THEN "other"
    ELSE "resolved"

ErrorOutcomes == {"no key", "network", "status", "no results", "format", "other"}

\* C1: get_definition never raises; a non-200 status s yields "API error: s";
\* API key missing, non-200 status, a body that is no non-empty list, a first
\* element that is no record, a network failure and a failure while resolving
\* each yield a string that no other of these outcomes yields.
C1_LookupNeverRaises ==
    lookup.done =>
        /\ lookup.r.exc = "none"
        /\ lookup.r.val # ""
        /\ (api_key /\ lookup.http.net = "ok" /\ lookup.http.status # 200) =>
               lookup.r.val = "API error: " \o ToString(lookup.http.status)
        /\ OutcomeOf(lookup.http, api_key) \in ErrorOutcomes =>
               \A key \in BOOLEAN, http \in HttpSamples :
                   (/\ OutcomeOf(http, key) \in ErrorOutcomes
                    /\ OutcomeOf(http, key) # OutcomeOf(lookup.http, api_key)) =>
                       get_definition(lookup.word, http, key, json_error).val # lookup.r.val

\* a 404 answered as "API error: 404"
C1_Witness ==
    /\ lookup.done
    /\ api_key
    /\ lookup.http.net = "ok"
    /\ lookup.http.status = 404
    /\ lookup.r = [exc |-> "none", val |-> "API error: 404", called |-> TRUE]

-----------------------------------------------------------------------------
(* clean_name *)

RECURSIVE DropTrailingDigits(_)
DropTrailingDigits(t) ==
    IF t # <<>> /\ t[Len(t)] \in Digits
    THEN DropTrailingDigits(SubSeq(t, 1, Len(t) - 1))
    ELSE t

\* re.sub(r"\s*\d+\s*$", "", name): a name that ends, before any trailing
\* whitespace, with digits loses them and the whitespace around them
StripTrailingNumber(name) ==
    IF RStrip(name) # <<>> /\ RStrip(name)[Len(RStrip(name))] \in Digits
    THEN RStrip(DropTrailingDigits(RStrip(name)))
    ELSE name

RECURSIVE FirstToken(_)
\* the characters up to the first whitespace
FirstToken(t) ==
    IF t = <<>> \/ Head(t) \in Whitespace THEN <<>>
    ELSE <<Head(t)>> \o FirstToken(Tail(t))

\* name.strip().split()[0]: IndexError when nothing is left
FirstWord(t) ==
    IF Strip(t) = <<>> THEN [exc |-> "IndexError", val |-> <<>>]
    ELSE [exc |-> "none", val |-> FirstToken(Strip(t))]

clean_name(name) == FirstWord(StripTrailingNumber(name))

-----------------------------------------------------------------------------
(* base64.b64decode, as binascii.a2b_base64 does it outside strict mode *)

\* the value of a character of the base64 alphabet, 64 for any other
B64Value(c) ==
    CASE c = "A" -> 0 [] c = "Q" -> 16 [] c = "g" -> 32 [] c = "/" -> 63
      [] OTHER -> 64

RECURSIVE B64Scan(_, _, _, _, _)
\* quad_pos: the place in the group of four; leftchar: the bits not yet
\* written; pads: the "=" seen since the last data character
B64Scan(t, quad_pos, leftchar, pads, out) ==
    IF t = <<>>
    THEN IF quad_pos # 0 THEN [exc |-> "binascii.Error", val |-> <<>>]
         ELSE [exc |-> "none", val |-> out]
    ELSE IF Head(t) = "="
    THEN IF quad_pos >= 2 /\ quad_pos + pads + 1 >= 4
         THEN [exc |-> "none", val |-> out]
         ELSE B64Scan(Tail(t), quad_pos, leftchar,
                      IF quad_pos >= 2 THEN pads + 1 ELSE pads, out)
    ELSE IF B64Value(Head(t)) >= 64
    THEN B64Scan(Tail(t), quad_pos, leftchar, pads, out)
    ELSE CASE quad_pos = 0 ->
                B64Scan(Tail(t), 1, B64Value(Head(t)), 0, out)
           [] quad_pos = 1 ->
                B64Scan(Tail(t), 2, B64Value(Head(t)) % 16, 0,
                        Append(out, (leftchar * 4 + B64Value(Head(t)) \div 16) % 256))
           [] quad_pos = 2 ->
                B64Scan(Tail(t), 3, B64Value(Head(t)) % 4, 0,
                        Append(out, (leftchar * 16 + B64Value(Head(t)) \div 4) % 256))
           [] OTHER ->
                B64Scan(Tail(t), 0, 0, 0,
                        Append(out, (leftchar * 64 + B64Value(Head(t))) % 256))

b64decode(encoded) == B64Scan(encoded, 0, 0, 0, <<>>)

-----------------------------------------------------------------------------
(* Documents of db.images: functions from field names to values *)

Has(doc, field) == field \in DOMAIN doc

\* {"$set": {field: value}} on one document, doc.update({field: value}) on a dict
SetField(doc, field, value) ==
    [name \in DOMAIN doc \cup {field} |-> IF name = field THEN value ELSE doc[name]]

\* datetime.fromtimestamp(t).strftime("%I:%M %p"), the clock read as UTC
FormattedTime(t) ==
    [hour |-> IF (t \div 3600) % 12 = 0 THEN 12 ELSE (t \div 3600) % 12,
     minute |-> (t \div 60) % 60,
     half |-> IF (t \div 3600) % 24 < 12 THEN "AM" ELSE "PM"]

\* lines 263-268 with the status of a processed image
NewDocumentProcessed(id, timestamp, binary) ==
    [_id |-> id, timestamp |-> timestamp, formatted_time |-> FormattedTime(timestamp),
     image_data |-> binary, status |-> "processed"]

\* lines 263-268, and the _id insert_one gives
NewDocument(id, timestamp, binary) ==
    [_id |-> id, timestamp |-> timestamp, formatted_time |-> FormattedTime(timestamp),
     image_data |-> binary, status |-> "pending"]

-----------------------------------------------------------------------------
(* process_entry *)

\* f"{conf * 100:.2f}%", conf in ten-thousandths
FormatConfidence(conf) ==
    ToString(conf \div 100) \o "." \o ToString((conf % 100) \div 10)
        \o ToString(conf % 10) \o "%"

\* lines 165-169 with the confidence written like the others
UnknownFieldsTwoDecimals(doc) ==
    SetField(SetField(SetField(doc, "top_class", "Unknown"),
                      "definition", NoDefinition), "confidence", "0.00%")

\* lines 165-169
UnknownFields(doc) ==
    SetField(SetField(SetField(doc, "top_class", "Unknown"),
                      "definition", NoDefinition), "confidence", "0%")

\* lines 182-186
EnrichedFields(doc, clean_class, definition, conf) ==
    SetField(SetField(SetField(doc, "top_class", clean_class),
                      "definition", definition), "confidence", FormatConfidence(conf))

\* what process_entry did: exc, the entry returned, the update_one it applied
\* (set: whether one was applied, definition: the value set), and whether the
\* dictionary API was called
Enriched(ret, set, definition, called) ==
    [exc |-> "none", ret |-> ret, set |-> set, definition |-> definition, called |-> called]

EnrichFailed(e, called) ==
    [exc |-> e, ret |-> <<>>, set |-> FALSE, definition |-> "", called |-> called]

\* lines 176-188. write: what update_one does, "ok" or "PyMongoError"
PersistAndReturn(doc, clean_class, conf, d, write, handle) ==
    IF d.exc # "none" THEN EnrichFailed(d.exc, d.called)
    ELSE IF handle = "up" /\ write # "ok" THEN EnrichFailed(write, d.called)
    ELSE Enriched(EnrichedFields(doc, clean_class, d.val, conf),
                  handle = "up", d.val, d.called)

\* line 174
LookupAndPersist(doc, clean_class, conf, http, write, key, jerr, handle) ==
    IF clean_class.exc # "none" THEN EnrichFailed(clean_class.exc, FALSE)
    ELSE PersistAndReturn(doc, Str(clean_class.val), conf,
                          get_definition(Str(clean_class.val), http, key, jerr),
                          write, handle)

ClassificationsOf(doc) ==
    IF Has(doc, "classifications") THEN doc["classifications"] ELSE <<>>

\* a process_entry that keeps the definition a document already carries
process_entry_cached(doc, http, write, key, jerr, handle) ==
    IF ClassificationsOf(doc) = <<>> THEN Enriched(UnknownFields(doc), FALSE, "", FALSE)
    ELSE IF Has(doc, "definition")
    THEN Enriched(EnrichedFields(doc, Str(clean_name(ClassificationsOf(doc)[1][1]).val),
                                 doc["definition"], ClassificationsOf(doc)[1][2]),
                  FALSE, "", FALSE)
    ELSE LookupAndPersist(doc, clean_name(ClassificationsOf(doc)[1][1]),
                          ClassificationsOf(doc)[1][2], http, write, key, jerr, handle)

\* doc: the entry; http: what the dictionary API answers; write: what
\* update_one does; key, jerr, handle: MW_API_KEY, the json error class, db
process_entry(doc, http, write, key, jerr, handle) ==
    IF ClassificationsOf(doc) = <<>> THEN Enriched(UnknownFields(doc), FALSE, "", FALSE)
    ELSE LookupAndPersist(doc, clean_name(ClassificationsOf(doc)[1][1]),
                          ClassificationsOf(doc)[1][2], http, write, key, jerr, handle)

\* update_one with a status as well
UpdateOneWithStatus(store, id, definition) ==
    [store EXCEPT ![id] = SetField(SetField(@, "definition", definition), "status", "defined")]

\* lines 177-180: update_one({"_id": id}, {"$set": {"definition": definition}})
UpdateOne(store, id, definition) ==
    [store EXCEPT ![id] = SetField(@, "definition", definition)]

\* the collection after process_entry
StoreAfter(store, doc, r) ==
    IF r.set THEN UpdateOne(store, doc["_id"], r.definition) ELSE store

-----------------------------------------------------------------------------
(* The upload handler, lines 236-278 *)

ImageKey == <<"i", "m", "a", "g", "e">>

\* "image" in data: a key of a dict, an element of a list, a part of a string
InData(data) ==
    CASE data.k = "dict" -> [exc |-> "none", val |-> "image" \in DOMAIN data.f]
      [] data.k = "list" ->
            [exc |-> "none", val |-> \E i \in 1..Len(data.items) : data.items[i] = JStr(ImageKey)]
      [] data.k = "str" ->
            [exc |-> "none",
             val |-> \E i \in 1..Len(data.s) :
                        i + 4 <= Len(data.s) /\ SubSeq(data.s, i, i + 4) = ImageKey]
      [] OTHER -> [exc |-> "TypeError", val |-> FALSE]

Answer(status, message, insert, binary) ==
    [status |-> status, message |-> message, insert |-> insert, binary |-> binary]

\* lines 253-278. write: what insert_one does
DecodeAndStore(binary, write) ==
    IF binary.exc # "none" THEN Answer(400, "Invalid image encoding", FALSE, <<>>)
    ELSE IF write # "ok" THEN Answer(500, "Database error", FALSE, <<>>)
    ELSE Answer(200, "Image uploaded successfully and is being processed.", TRUE, binary.val)

\* lines 253-278 with the image stored before its encoding is checked
DecodeAndStoreUnchecked(image, write) ==
    IF image.k # "str" THEN Answer(500, "Internal Server Error", FALSE, <<>>)
    ELSE IF IndexOf(image.s, ",") = 0 THEN Answer(400, "Invalid image data", FALSE, <<>>)
    ELSE IF write # "ok" THEN Answer(500, "Database error", FALSE, <<>>)
    ELSE Answer(200, "Image uploaded successfully and is being processed.", TRUE,
                b64decode(SubSeq(image.s, IndexOf(image.s, ",") + 1, Len(image.s))).val)

\* lines 247-257: data["image"].split(",", 1), an AttributeError (not caught:
\* Flask answers 500) where the value is no string, a ValueError where it has
\* no comma
SplitAndDecode(image, write) ==
    IF image.k # "str" THEN Answer(500, "Internal Server Error", FALSE, <<>>)
    ELSE IF IndexOf(image.s, ",") = 0 THEN Answer(400, "Invalid image data", FALSE, <<>>)
    ELSE DecodeAndStore(b64decode(SubSeq(image.s, IndexOf(image.s, ",") + 1, Len(image.s))),
                        write)

\* lines 243-251: data["image"] raises TypeError on a list or a string
ImageOf(data, found, write) ==
    IF found.exc # "none" THEN Answer(500, "Internal Server Error", FALSE, <<>>)
    ELSE IF ~found.val THEN Answer(400, "No image data provided", FALSE, <<>>)
    ELSE IF data.k # "dict" THEN Answer(400, "Invalid image data", FALSE, <<>>)
    ELSE SplitAndDecode(data.f["image"], write)

\* data: request.get_json(), JNull where the request carries no JSON (a Flask
\* that answers 415 there fails the request as well, before line 243)
upload(data, write, handle) ==
    IF handle # "up" THEN Answer(500, "Database connection error", FALSE, <<>>)
    ELSE IF Falsy(data) THEN Answer(400, "No image data provided", FALSE, <<>>)
    ELSE ImageOf(data, InData(data), write)

-----------------------------------------------------------------------------
(* The web application over the images collection *)

Writes == {"ok", "PyMongoError"}

\* request bodies, as request.get_json() gives them
UploadSamples ==
    {JNull,
     JDict([img |-> JStr(<<"h", ",", "Q", "Q", "=", "=">>)]),
     JList(<<JStr(ImageKey)>>),
     JDict([image |-> JNum(5)]),
     JDict([image |-> JStr(<<"Q", "Q", "=", "=">>)]),
     JDict([image |-> JStr(<<"h", ",", "Q">>)]),
     JDict([image |-> JStr(<<"h", ",", "Q", "Q", "=", "=">>)])}

\* what the classifier writes: (label, confidence in ten-thousandths) pairs
ClassificationSamples ==
    {<<>>,
     << <<<<"a", " ", "b", " ", "7">>, 9620>>, <<<<"b">>, 2500>> >>}

\* what the dictionary API answers while a page is rendered
PageHttpSamples ==
    {HttpOk(404, JList(<<>>)),
     HttpOk(200, JList(<<EntryOf(<<ItemTwoSentences>>)>>))}

\* the ids asked for: one that is no ObjectId, the first record's, and one
\* that no record has
ImageIds ==
    {[valid |-> FALSE, id |-> 0], [valid |-> TRUE, id |-> 1], [valid |-> TRUE, id |-> MaxImages + 1]}

Init ==
    /\ api_key \in BOOLEAN
    /\ json_error = "requests.JSONDecodeError"
    /\ db \in {"up", "none"}
    /\ images = <<>>
    /\ clock = 0
    /\ home = Idle
    /\ response = Idle
    /\ ParserIdle /\ ResolverIdle /\ LookupIdle

Pending(store) == {i \in 1..Len(store) : store[i]["status"] = "pending"}

Processed(store) == {i \in 1..Len(store) : store[i]["status"] = "processed"}

RECURSIVE NewestFirst(_, _)
\* find({"status": "processed"}).sort("processed_at", -1)
NewestFirst(store, ids) ==
    IF ids = {} THEN <<>>
    ELSE LET newest == CHOOSE i \in ids :
                          \A j \in ids : store[j]["processed_at"] <= store[i]["processed_at"]
         IN <<store[newest]>> \o NewestFirst(store, ids \ {newest})

\* lines 259-278 done: the document inserted, the response sent. time.time()
\* of successive uploads does not decrease; timestamp is the upload's place in
\* their order. clock counts the classifier's writes and stands still here.
UploadAnswered(a) ==
    /\ a.insert => Len(images) < MaxImages
    /\ images' = IF a.insert
                 THEN Append(images, NewDocument(Len(images) + 1, Len(images) + 1, a.binary))
                 ELSE images
    /\ clock' = clock
    /\ response' = [op |-> "upload", status |-> a.status, message |-> a.message]

\* insert_one has an outcome only where line 269 is reached
InsertOutcomes(data) == IF upload(data, "ok", db).insert THEN Writes ELSE {"ok"}

Upload ==
    /\ \E data \in UploadSamples :
           \E write \in InsertOutcomes(data) : UploadAnswered(upload(data, write, db))
    /\ UNCHANGED <<blob, parsed, entry, resolved, lookup, api_key, json_error, db, home>>

\* the classifier process: it analyses a pending image, writes its
\* classifications and marks it processed
Classify ==
    /\ \E i \in Pending(images), c \in ClassificationSamples :
           images' = [images EXCEPT ![i] =
                         SetField(SetField(SetField(@, "classifications", c),
                                           "status", "processed"),
                                  "processed_at", clock)]
    /\ clock' = clock + 1
    /\ UNCHANGED <<blob, parsed, entry, resolved, lookup, api_key, json_error, db,
                   home, response>>

\* lines 200-204: the request arrives, the cursor is opened
HomeBegin ==
    /\ home = Idle
    /\ IF db # "up"
       THEN /\ response' = [op |-> "home", status |-> 500, error |-> "none",
                            entries |-> <<>>, calls |-> 0, refetched |-> 0]
            /\ home' = home
       ELSE /\ home' = [op |-> "home", cursor |-> NewestFirst(images, Processed(images)),
                        entries |-> <<>>, calls |-> 0, refetched |-> 0]
            /\ response' = response
    /\ UNCHANGED <<blob, parsed, entry, resolved, lookup, api_key, json_error, db,
                   images, clock>>

Count(b) == IF b THEN 1 ELSE 0

\* line 205, one entry done; an exception leaves the handler and Flask
\* answers 500
HomeEntryDone(doc, r) ==
    IF r.exc # "none"
    THEN /\ response' = [op |-> "home", status |-> 500, error |-> r.exc, entries |-> <<>>,
                         calls |-> home.calls + Count(r.called),
                         refetched |-> home.refetched
                                          + Count(r.called /\ Has(doc, "definition"))]
         /\ home' = Idle
         /\ images' = images
    ELSE /\ images' = StoreAfter(images, doc, r)
         /\ home' = [home EXCEPT !.cursor = Tail(@),
                                 !.entries = Append(@, r.ret),
                                 !.calls = @ + Count(r.called),
                                 !.refetched = @ + Count(r.called /\ Has(doc, "definition"))]
         /\ response' = response

\* update_one has an outcome only where line 177 is reached
UpdateOutcomes(doc) ==
    IF ClassificationsOf(doc) # <<>> /\ clean_name(ClassificationsOf(doc)[1][1]).exc = "none"
    THEN Writes ELSE {"ok"}

HomeEntry ==
    /\ home.op = "home"
    /\ home.cursor # <<>>
    /\ \E http \in PageHttpSamples :
         \E write \in UpdateOutcomes(Head(home.cursor)) :
           HomeEntryDone(Head(home.cursor),
                         process_entry(Head(home.cursor), http, write, api_key, json_error, db))
    /\ UNCHANGED <<blob, parsed, entry, resolved, lookup, api_key, json_error, db, clock>>

\* line 206
HomeRender ==
    /\ home.op = "home"
    /\ home.cursor = <<>>
    /\ response' = [op |-> "home", status |-> 200, error |-> "none",
                    entries |-> home.entries, calls |-> home.calls,
                    refetched |-> home.refetched]
    /\ home' = Idle
    /\ UNCHANGED <<blob, parsed, entry, resolved, lookup, api_key, json_error, db,
                   images, clock>>

\* lines 226-232
CheckStatus ==
    /\ response' = IF db # "up" THEN [op |-> "status", status |-> 500, pending |-> FALSE]
                   ELSE [op |-> "status", status |-> 200, pending |-> Pending(images) # {}]
    /\ UNCHANGED <<blob, parsed, entry, resolved, lookup, api_key, json_error, db,
                   images, clock, home>>

\* lines 210-222; an image_id that is no ObjectId raises, and 500 is answered
find_image(image_id, store, handle) ==
    IF handle # "up" THEN [op |-> "image", status |-> 500, body |-> <<>>]
    ELSE IF ~image_id.valid THEN [op |-> "image", status |-> 500, body |-> <<>>]
    ELSE IF image_id.id \in 1..Len(store) /\ Has(store[image_id.id], "image_data")
    THEN [op |-> "image", status |-> 200, body |-> store[image_id.id]["image_data"]]
    ELSE [op |-> "image", status |-> 404, body |-> <<>>]

FindImage ==
    /\ \E image_id \in ImageIds : response' = find_image(image_id, images, db)
    /\ UNCHANGED <<blob, parsed, entry, resolved, lookup, api_key, json_error, db,
                   images, clock, home>>

\* the steps of the web application itself
WebStep == Upload \/ HomeBegin \/ HomeEntry \/ HomeRender \/ CheckStatus \/ FindImage

Next ==
    \/ Upload
    \/ Classify
    \/ HomeBegin
    \/ HomeEntry
    \/ HomeRender
    \/ CheckStatus
    \/ FindImage

Spec == Init /\ [][Next]_vars

-----------------------------------------------------------------------------
(* Properties of the web application *)

RenderedOk == response.op = "home" /\ response.status = 200

WithClassifications(entries) ==
    {i \in 1..Len(entries) : ClassificationsOf(entries[i]) # <<>>}

\* C2: a failing update_one of the definition does not leave process_entry:
\* the enriched record is still returned and the display request that
\* called it is not answered with the storage error.
C2_PersistIsBestEffort ==
    ~(response.op = "home" /\ response.status = 500 /\ response.error = "PyMongoError")

\* C5 as stated: a display request issues exactly one dictionary API call for
\* every processed record it renders.
C5_OneCallPerRecord == RenderedOk => response.calls = Len(response.entries)

\* C5 amended: a display request that renders issues exactly one dictionary
\* API call for every rendered record that has at least one classification
\* when the API key is configured, whether or not a definition is already
\* stored on the record, and none for a record without classifications or
\* when no API key is configured.
C5_OneCallPerClassifiedRecord ==
    /\ RenderedOk =>
           response.calls = IF api_key
                            THEN Cardinality(WithClassifications(response.entries))
                            ELSE 0
    /\ home.op = "home" =>
           home.calls = IF api_key
                        THEN Cardinality(WithClassifications(home.entries))
                        ELSE 0

\* a page rendered with two records looked up, one of them carrying a stored
\* definition already
C5_Witness ==
    /\ RenderedOk
    /\ Len(response.entries) = 2
    /\ response.calls = 2
    /\ response.refetched >= 1

StatusOf(store, i) == store[i]["status"]

DefinitionWritten(old, new) ==
    Has(new, "definition") /\ (~Has(old, "definition") \/ old["definition"] # new["definition"])

\* what every step keeps: records are only added, and added pending; a status
\* only moves from pending to processed; a definition is only written onto a
\* processed record; the web application's own steps leave status and
\* classifications alone
LifecycleStep ==
    /\ Len(images') >= Len(images)
    /\ \A i \in 1..Len(images') :
           i > Len(images) =>
               /\ StatusOf(images', i) = "pending"
               /\ ~Has(images'[i], "definition")
               /\ ~Has(images'[i], "classifications")
    /\ \A i \in 1..Len(images) :
           /\ StatusOf(images', i) # StatusOf(images, i) =>
                  (StatusOf(images, i) = "pending" /\ StatusOf(images', i) = "processed")
           /\ DefinitionWritten(images[i], images'[i]) =>
                  (StatusOf(images, i) = "processed" /\ StatusOf(images', i) = "processed")
           /\ (\/ StatusOf(images', i) # StatusOf(images, i)
               \/ Has(images'[i], "classifications") # Has(images[i], "classifications")
               \/ ClassificationsOf(images'[i]) # ClassificationsOf(images[i])) => ~WebStep

\* C6: the Image Record lifecycle, over every interleaving of uploads,
\* classifier updates and display requests.
C6_Lifecycle == [][LifecycleStep]_vars

\* a processed record with a stored definition beside a pending one
C6_Witness ==
    /\ Len(images) = 2
    /\ \E i, j \in 1..Len(images) :
           /\ StatusOf(images, i) = "processed" /\ Has(images[i], "definition")
           /\ StatusOf(images, j) = "pending"

ShownFields == {"top_class", "confidence", "definition"}

\* store with at most the definition of record i written
OnlyDefinitionWritten(store, after, i) ==
    \/ after = store
    \/ /\ Has(after[i], "definition")
       /\ after = [store EXCEPT ![i] = SetField(@, "definition", after[i]["definition"])]

\* process_entry on record i with its update applied, then again on the
\* stored record, the answers of the API and of the store being the same
IdempotentOn(store, i, http) ==
    LET r1 == process_entry(store[i], http, "ok", api_key, json_error, db)
        s1 == StoreAfter(store, store[i], r1)
        r2 == process_entry(s1[i], http, "ok", api_key, json_error, db)
    IN /\ r2.exc = r1.exc
       /\ r1.exc = "none" =>
              /\ StoreAfter(s1, s1[i], r2) = s1
              /\ \A f \in ShownFields : r2.ret[f] = r1.ret[f]
              /\ OnlyDefinitionWritten(store, s1, i)

\* C7: enriching a processed record twice leaves the stored record and the
\* returned top_class, confidence and definition as enriching it once does,
\* and the only stored field written is the definition.
C7_EnrichmentIdempotent ==
    \A i \in Processed(images), http \in PageHttpSamples : IdempotentOn(images, i, http)

\* a record enriched a second time, its stored definition the one returned
C7_Witness ==
    /\ RenderedOk
    /\ response.refetched >= 1
    /\ \E n \in 1..Len(response.entries) :
           /\ response.entries[n]["definition"] = "b a."
           /\ images[response.entries[n]["_id"]]["definition"] = "b a."

UnknownAs(ret, label) ==
    /\ ret["top_class"] = label
    /\ ret["definition"] = NoDefinition
    /\ ret["confidence"] = "0%"

\* every record shown or stored that has no classifications is enriched to
\* the label given
UnknownLabelled(label) ==
    /\ \A n \in 1..Len(response.entries) :
           ClassificationsOf(response.entries[n]) = <<>> =>
               UnknownAs(response.entries[n], label)
    /\ \A i \in 1..Len(images), http \in PageHttpSamples, write \in Writes :
           ClassificationsOf(images[i]) = <<>> =>
               LET r == process_entry(images[i], http, write, api_key, json_error, db)
               IN r.exc = "none" /\ UnknownAs(r.ret, label) /\ ~r.set /\ ~r.called

\* C8 as stated: a record without classifications is returned with the label
\* "unknown", the sentinel definition and confidence "0%".
C8_UnknownLowercase == response.op = "home" => UnknownLabelled("unknown")

\* C8 amended: a record whose classifications are absent or empty is returned
\* with top_class "Unknown" (capital U), the definition "No definition
\* available." and confidence "0%"; no lookup is made and nothing is stored.
C8_UnknownCapitalised == response.op = "home" => UnknownLabelled("Unknown")

\* a page rendered with a processed record that has no classifications
C8_Witness ==
    /\ RenderedOk
    /\ \E n \in 1..Len(response.entries) :
           /\ response.entries[n]["classifications"] = <<>>
           /\ response.entries[n]["top_class"] = "Unknown"

\* a body that upload can store: a record whose image is text with a comma
\* and a payload that decodes
Storable(data) ==
    /\ data.k = "dict"
    /\ "image" \in DOMAIN data.f
    /\ data.f["image"].k = "str"
    /\ IndexOf(data.f["image"].s, ",") > 0
    /\ b64decode(SubSeq(data.f["image"].s, IndexOf(data.f["image"].s, ",") + 1,
                        Len(data.f["image"].s))).exc = "none"

\* a body that cannot be stored, a missing storage handle or a failing
\* insert_one is answered with a failure and inserts nothing
RejectionsFail ==
    \A data \in UploadSamples, write \in Writes :
        (~Storable(data) \/ db # "up" \/ write # "ok") =>
            /\ ~upload(data, write, db).insert
            /\ upload(data, write, db).status \in {400, 500}

\* what an upload step does to the collection
UploadEffect ==
    /\ \/ /\ response'.status = 200
          /\ Len(images') = Len(images) + 1
          /\ SubSeq(images', 1, Len(images)) = images
          /\ StatusOf(images', Len(images')) = "pending"
       \/ /\ response'.status \in {400, 500}
          /\ images' = images

\* C10: an upload changes the collection only on success: a rejected request
\* or one made without a storage handle is answered with a failure and
\* inserts nothing; a successful one inserts exactly one pending record and
\* leaves the others as they were.
C10_UploadOnlyOnSuccess ==
    /\ []RejectionsFail
    /\ [][(response'.op = "upload" /\ Upload) => UploadEffect]_vars

\* a second upload rejected for its encoding, the first record in place
C10_Witness ==
    /\ response.op = "upload"
    /\ response.status = 400
    /\ response.message = "Invalid image encoding"
    /\ Len(images) = 1

====
